---- MODULE Spec2Model ----
(***************************************************************************)
(* Model of statespec's execution engine, Spec.Run (src/spec.go).          *)
(*                                                                         *)
(* Run is one sequential procedure.  The model follows it from callback to *)
(* callback: every action below is the stretch of Run that ends with the   *)
(* return of one user callback (Setup, InitState, Gen, the CommandFunc,    *)
(* Verify, TearDown) or with a loop exit.  What the callbacks and the      *)
(* random source return is chosen nondeterministically from small sets.    *)
(***************************************************************************)
EXTENDS Integers, Sequences, FiniteSets

\* ---------------------------------------------------------------- bounds
MaxCmds == 2            \* longest Commands list explored
MaxState == 1           \* model states S are 0..MaxState
MaxIterations == 2      \* largest conf.Iterations explored in general
MaxCmdConf == 2         \* largest conf.MaxCmdPerIter explored
MaxWork == 12           \* largest Len(Commands) * Iterations * MaxCmdPerIter
                        \* * (number of model states)
                        \* explored in general

\* ------------------------------------------------------ program constants
DefaultIterations == 100
DefaultMaxCmdPerIter == 20
TriesPerCommand == 3

\* ------------------------------------------------------------ value sets
States == 0..MaxState
\* The Description a command reports for the state it was generated in
\* (the input it sends, built by Gen from the state).
DescOf(kind, s) == <<kind, s>>
Errs == {"e1", "e2"}
Nil == "nil"

\* Kinds of Command the model explores.
\*   free      Gen may decline or accept, the action may fail, Verify may
\*             return either value
\*   noverify  as free, with Verify == nil
\*   decliner  Gen always returns nil
\*   failsOn2  Gen always accepts, the action never fails, Verify returns
\*             true on its first invocation and false from the second on
\*   good      Gen always accepts, the action never fails, Verify always
\*             returns true
Kinds == {"free", "noverify", "decliner", "failsOn2", "good"}

\* The commands of examples/realworldapi, in the order of newRealWorldSpec.
RealWorldCommands == <<"createUser", "getCurrentUser", "login">>

\* What the tested server may answer: the Username of the User it returns
\* ("" when it returns none) and the Token of that User.
RWUsers == {"", "u1", "u2"}
RWTokens == {"", "t1"}

\* RealWorldState as newRealWorldSpec's InitState returns it.  A User is
\* modelled by its Username, the only field Gen and Verify read; endpoint
\* never changes and is left out.
RWInit ==
    [authToken |-> "", password |-> "", createUser |-> "", loginUser |-> "",
     currentUser |-> ""]

\* Command.Name of the k-th element of Commands
Name(k) == <<"cmdA", "cmdB", "cmdC", "cmdD">>[k]

\* c.Verify != nil
HasVerify(kind) == kind # "noverify"

\* Gen with login's guard on state.createUser.Username missing.
GenResults_LoginUnguarded(kind, s) ==
    CASE kind = "decliner" -> {FALSE}
      [] kind \in {"failsOn2", "good"} -> {TRUE}
      [] kind = "createUser" -> {TRUE}
      [] kind = "getCurrentUser" -> {s.authToken # ""}
      [] kind = "login" -> {TRUE}
      [] OTHER -> {TRUE, FALSE}

\* The values c.Gen(state, rnd) can return: TRUE stands for a CommandFunc,
\* FALSE for nil.
GenResults(kind, s) ==
    CASE kind = "decliner" -> {FALSE}
      [] kind \in {"failsOn2", "good"} -> {TRUE}
      [] kind = "createUser" -> {TRUE}
      [] kind = "getCurrentUser" -> {s.authToken # ""}
      [] kind = "login" -> {s.createUser # ""}
      [] OTHER -> {TRUE, FALSE}

\* The NewState and Error the CommandFunc of a realworldapi command can
\* return for state s, whatever the server does: the request fails with
\* some error, or succeeds with some answer.
RWResults(kind, s) ==
    CASE kind = "createUser" ->
           {<<[s EXCEPT !.password = ""], e>> : e \in Errs}
           \cup {<<[s EXCEPT !.createUser = u, !.password = "pw"], Nil>> :
                    u \in RWUsers}
      [] kind = "getCurrentUser" ->
           {<<[s EXCEPT !.currentUser = ""], e>> : e \in Errs}
           \cup {<<[s EXCEPT !.currentUser = u], Nil>> : u \in RWUsers}
      [] kind = "login" ->
           {<<[s EXCEPT !.authToken = ""], e>> : e \in Errs}
           \cup {<<[s EXCEPT !.loginUser = u, !.authToken = t], Nil>> :
                    u \in RWUsers, t \in RWTokens}

\* The CommandOutput values cfunc() can return.
Outputs(kind, s) ==
    IF kind \in {"createUser", "getCurrentUser", "login"}
    THEN {[NewState |-> r[1], Description |-> DescOf(kind, s),
           Error |-> r[2]] : r \in RWResults(kind, s)}
    ELSE
    [NewState : States, Description : {DescOf(kind, s)},
     Error : IF kind \in {"failsOn2", "good"} THEN {Nil}
             ELSE Errs \cup {Nil}]

\* The values c.Verify(old, new) can return, n being the number of earlier
\* invocations its closure has counted.
VerifyResults(kind, old, new, n) ==
    CASE kind = "failsOn2" -> {n < 1}
      [] kind = "good" -> {TRUE}
      [] kind = "createUser" -> {new.createUser # "" /\ new.password # ""}
      [] kind = "getCurrentUser" -> {old.loginUser = new.currentUser}
      [] kind = "login" ->
           {new.loginUser = new.createUser /\ new.authToken # ""}
      [] OTHER -> {TRUE, FALSE}

\* The closure's counter after one more invocation of Verify.
SeenAfter(kind, n) == IF kind = "failsOn2" THEN n + 1 ELSE n

\* ---------------------------------------------------------- error values
NoErr == [kind |-> Nil]

ConfigError(msg) == [kind |-> "config", msg |-> msg]

SetupError(e) == [kind |-> "setup", wraps |-> e]

CmdError(it, step, name, desc, st, e) ==
    [kind |-> "cmd", iter |-> it, step |-> step, cmd |-> name,
     desc |-> desc, state |-> st, cause |-> e]

VerifyError(it, step, name, desc, old, new) ==
    [kind |-> "verify", iter |-> it, step |-> step, cmd |-> name,
     desc |-> desc, oldState |-> old, newState |-> new]

\* fmt.Errorf("spec.Run TearDown error: %w", err): the operand is err, the
\* error recorded so far, not err2, the value TearDown returned.
TearDownError(err, err2) ==
    [kind |-> "teardown", wraps |-> IF err.kind = Nil THEN Nil ELSE err.kind]

\* What s.InitState() returns.
InitStateResult(cmds) == IF cmds = RealWorldCommands THEN RWInit ELSE 0

NoRet == [n |-> -1, err |-> NoErr]

VARIABLES
    \* the Spec value and the SpecConf passed to Run
    Commands,       \* sequence of kinds
    InitState,      \* TRUE when s.InitState != nil
    Setup,          \* TRUE when s.Setup != nil
    TearDown,       \* TRUE when s.TearDown != nil
    Iterations,     \* conf.Iterations
    MaxCmdPerIter,  \* conf.MaxCmdPerIter
    \* locals of Run (0, NoOut outside their scope)
    pc, iters, cmdPerIter, maxTries, i, state, totalCmdsToRun, cmdRun, tries,
    c, out, err, ret,
    \* state of the callbacks
    verifySeen,     \* per command, the invocations its Verify has counted
    \* observations of the calls Run has made
    nSetup,         \* Setup calls
    setupRes,       \* what Setup returned ("none" before it is called)
    nTearDown,      \* TearDown calls
    tearDownRes,    \* what TearDown returned ("none" before it is called)
    errAtTearDown,  \* err when Run reached line 161
    nInit,          \* InitState calls
    genCalls,       \* Gen calls made in the current iteration
    actsInIter,     \* actions invoked in the current iteration
    verifiesInIter, \* Verify calls made in the current iteration
    firstDraw,      \* totalCmdsToRun of iteration 0
    xfail,          \* the execution whose action returned an error
    vfail,          \* the execution whose Verify returned false
    lastNew,        \* the state the executions of the current iteration have
                    \* led to: what InitState returned, then the NewState
                    \* returned by the latest action
    passed          \* the commands of which an action, in the current
                    \* iteration, returned no error and passed Verify

NoOut ==
    [NewState |-> InitStateResult(Commands), Description |-> <<>>,
     Error |-> Nil]

input == <<Commands, InitState, Setup, TearDown, Iterations, MaxCmdPerIter>>
setupLocals == <<iters, cmdPerIter, maxTries>>
iterLocals == <<state, totalCmdsToRun, cmdRun, tries>>
bodyLocals == <<c, out>>
hookObs == <<nSetup, setupRes, nTearDown, tearDownRes, errAtTearDown>>
iterObs == <<nInit, genCalls, actsInIter, verifiesInIter, firstDraw>>
failObs == <<xfail, vfail>>
execObs == <<lastNew, passed>>
vars == <<input, pc, setupLocals, i, iterLocals, bodyLocals, err, ret,
          verifySeen, hookObs, iterObs, failObs, execObs>>

\* Sequences of kinds of length 0..n
CommandLists(n) == UNION {[1..k -> Kinds] : k \in 0..n}

\* Scenario A: three commands that always run and always verify.
ScenarioACommands == <<"good", "good", "good">>

\* The inputs explored: every command list of free, noverify and decliner
\* commands within the bounds; the failsOn2 command alone, for 5 iterations;
\* lists of good commands, scenario A with its 5 iterations among them; the
\* realworldapi commands, with room for each of them in an iteration; and a
\* single decliner or a single good command under each defaulted (< 1)
\* configuration value.
InputOK(cmds, its, mx) ==
    \/ /\ \A k \in DOMAIN cmds : cmds[k] \in {"free", "noverify", "decliner"}
       /\ its \in 1..MaxIterations
       /\ mx \in 1..MaxCmdConf
       /\ Len(cmds) * its * mx * (MaxState + 1) <= MaxWork
    \/ cmds = <<"failsOn2">> /\ its = 5 /\ mx \in 1..MaxCmdConf
    \/ /\ Len(cmds) \in 1..MaxCmds
       /\ \A k \in DOMAIN cmds : cmds[k] = "good"
       /\ its \in 1..MaxIterations
       /\ mx \in 1..MaxCmdConf
    \/ cmds = ScenarioACommands /\ its = 5 /\ mx \in 1..MaxCmdConf
    \/ cmds = RealWorldCommands /\ its \in 1..MaxIterations
                                /\ mx = Len(RealWorldCommands)
    \/ cmds \in {<<"decliner">>, <<"good">>} /\ its = 0 /\ mx = 1
    \/ cmds \in {<<"decliner">>, <<"good">>} /\ its = 1 /\ mx = 0

Init ==
    /\ Commands \in CommandLists(MaxCmds)
                     \cup {ScenarioACommands, RealWorldCommands}
    /\ InitState \in BOOLEAN
    /\ Setup \in BOOLEAN
    /\ TearDown \in BOOLEAN
    /\ Iterations \in (0..MaxIterations) \cup {5}
    /\ MaxCmdPerIter \in (0..MaxCmdConf) \cup {Len(RealWorldCommands)}
    /\ InputOK(Commands, Iterations, MaxCmdPerIter)
    \* newRealWorldSpec sets InitState and neither Setup nor TearDown
    /\ Commands = RealWorldCommands => (InitState /\ ~Setup /\ ~TearDown)
    /\ pc = "start"
    /\ iters = 0 /\ cmdPerIter = 0 /\ maxTries = 0 /\ i = 0
    /\ state = InitStateResult(Commands)
    /\ totalCmdsToRun = 0 /\ cmdRun = 0 /\ tries = 0
    /\ c = 0 /\ out = NoOut /\ err = NoErr /\ ret = NoRet
    /\ verifySeen = [k \in DOMAIN Commands |-> 0]
    /\ nSetup = 0 /\ setupRes = "none"
    /\ nTearDown = 0 /\ tearDownRes = "none" /\ errAtTearDown = NoErr
    /\ nInit = 0 /\ genCalls = 0 /\ actsInIter = 0 /\ verifiesInIter = 0
    /\ firstDraw = 0
    /\ xfail = NoErr /\ vfail = NoErr
    /\ lastNew = InitStateResult(Commands) /\ passed = {}

\* ---------------------------------------------------------------- actions

\* The configuration checks without the InitState check of lines 90-92.
Validate_NoInitStateCheck ==
    /\ pc = "start"
    /\ IF Len(Commands) = 0
         THEN /\ ret' = [n |-> 0, err |-> ConfigError("Commands is empty")]
              /\ pc' = "done"
         ELSE /\ ret' = ret
              /\ pc' = "setup"
    /\ UNCHANGED <<input, execObs, setupLocals, i, iterLocals, bodyLocals, err,
                   verifySeen, hookObs, iterObs, failObs>>

\* Lines 87-92: the configuration checks.
Validate ==
    /\ pc = "start"
    /\ IF Len(Commands) = 0
         THEN /\ ret' = [n |-> 0, err |-> ConfigError("Commands is empty")]
              /\ pc' = "done"
         ELSE IF ~InitState
         THEN /\ ret' = [n |-> 0, err |-> ConfigError("InitState cannot be nil")]
              /\ pc' = "done"
         ELSE /\ ret' = ret
              /\ pc' = "setup"
    /\ UNCHANGED <<input, execObs, setupLocals, i, iterLocals, bodyLocals, err,
                   verifySeen, hookObs, iterObs, failObs>>

\* The iteration count taken as configured, without the default.
ItersOf_NoDefault(n) == n

\* Lines 108-111.
ItersOf(n) == IF n < 1 THEN DefaultIterations ELSE n

\* Lines 113-116.
CmdPerIterOf(n) == IF n < 1 THEN DefaultMaxCmdPerIter ELSE n

\* A limit that forgets the number of commands.
MaxTriesOf_Flat(cmds) == TriesPerCommand

\* Line 122.
MaxTriesOf(cmds) == TriesPerCommand * Len(cmds)

\* Lines 101-123: the defaults and the locals set up before the loop.
Prepare ==
    /\ iters' = ItersOf(Iterations)
    /\ cmdPerIter' = CmdPerIterOf(MaxCmdPerIter)
    /\ maxTries' = MaxTriesOf(Commands)
    /\ err' = NoErr
    /\ i' = 0
    /\ pc' = "iter"

\* Lines 94-99 with s.Setup == nil, then lines 101-123.
SkipSetup ==
    /\ pc = "setup"
    /\ ~Setup
    /\ Prepare
    /\ UNCHANGED <<input, execObs, iterLocals, bodyLocals, ret, verifySeen, hookObs,
                   iterObs, failObs>>

\* Lines 94-99 with Setup returning nil, then lines 101-123.
SetupOK ==
    /\ pc = "setup"
    /\ Setup
    /\ nSetup' = nSetup + 1
    /\ setupRes' = Nil
    /\ Prepare
    /\ UNCHANGED <<input, execObs, iterLocals, bodyLocals, ret, verifySeen,
                   nTearDown, tearDownRes, errAtTearDown, iterObs, failObs>>

\* Setup's error is reported, but Run carries on into the iterations.
SetupFails_Continue ==
    /\ pc = "setup"
    /\ Setup
    /\ \E e \in Errs :
         /\ setupRes' = e
         /\ err' = SetupError(e)
    /\ nSetup' = nSetup + 1
    /\ iters' = ItersOf(Iterations)
    /\ cmdPerIter' = CmdPerIterOf(MaxCmdPerIter)
    /\ maxTries' = MaxTriesOf(Commands)
    /\ i' = 0
    /\ pc' = "iter"
    /\ UNCHANGED <<input, execObs, iterLocals, bodyLocals, ret, verifySeen,
                   nTearDown, tearDownRes, errAtTearDown, iterObs, failObs>>

\* Lines 94-98 with Setup returning an error.
SetupFails ==
    /\ pc = "setup"
    /\ Setup
    /\ \E e \in Errs :
         /\ setupRes' = e
         /\ ret' = [n |-> 0, err |-> SetupError(e)]
    /\ nSetup' = nSetup + 1
    /\ pc' = "done"
    /\ UNCHANGED <<input, execObs, setupLocals, i, iterLocals, bodyLocals, err,
                   verifySeen, nTearDown, tearDownRes, errAtTearDown,
                   iterObs, failObs>>

\* A draw that forgets the + 1 of line 125.
Draws_NoPlusOne(n) == 0..(n - 1)

\* Line 125: the values rnd.Intn(n) + 1 can take.
Draws(n) == 1..n

\* Line 123, condition true, and lines 124-127: InitState() and the draw
\* rnd.Intn(cmdPerIter) + 1.
BeginIteration ==
    /\ pc = "iter"
    /\ i < iters /\ err = NoErr
    /\ state' = InitStateResult(Commands)
    /\ nInit' = nInit + 1
    /\ \E d \in Draws(cmdPerIter) :
         /\ totalCmdsToRun' = d
         /\ firstDraw' = IF i = 0 THEN d ELSE firstDraw
    /\ cmdRun' = 0
    /\ tries' = 0
    /\ genCalls' = 0 /\ actsInIter' = 0 /\ verifiesInIter' = 0
    /\ lastNew' = InitStateResult(Commands) /\ passed' = {}
    /\ pc' = "inner"
    /\ UNCHANGED <<input, setupLocals, i, bodyLocals, err, ret, verifySeen,
                   hookObs, failObs>>

\* The outer loop is left and Run returns a recorded error at once, without
\* reaching TearDown.
EndIterations_ReturnOnError ==
    /\ pc = "iter"
    /\ ~(i < iters /\ err = NoErr)
    /\ IF err # NoErr
         THEN /\ ret' = [n |-> iters, err |-> err]
              /\ pc' = "done"
         ELSE /\ ret' = ret
              /\ pc' = "teardown"
    /\ errAtTearDown' = err
    /\ UNCHANGED <<input, execObs, setupLocals, i, iterLocals, bodyLocals, err,
                   verifySeen, nSetup, setupRes, nTearDown, tearDownRes,
                   iterObs, failObs>>

\* Line 123, condition false: the outer loop is left.
EndIterations ==
    /\ pc = "iter"
    /\ ~(i < iters /\ err = NoErr)
    /\ pc' = "teardown"
    /\ errAtTearDown' = err
    /\ UNCHANGED <<input, execObs, setupLocals, i, iterLocals, bodyLocals, err, ret,
                   verifySeen, nSetup, setupRes, nTearDown, tearDownRes,
                   iterObs, failObs>>

\* A loop bound that is off by one: <= for the < of line 128.
InnerCond_Inclusive ==
    cmdRun <= totalCmdsToRun /\ tries < maxTries /\ err = NoErr

\* Line 128.
InnerCond == cmdRun < totalCmdsToRun /\ tries < maxTries /\ err = NoErr

\* A decline that is not counted: the tries++ of line 135 is missing.
Decline_Uncounted ==
    /\ pc = "inner"
    /\ InnerCond
    /\ \E k \in 1..Len(Commands) : FALSE \in GenResults(Commands[k], state)
    /\ genCalls' = genCalls + 1
    /\ tries' = tries
    /\ UNCHANGED <<input, execObs, pc, setupLocals, i, state, totalCmdsToRun,
                   cmdRun, bodyLocals, err, ret, verifySeen, hookObs, nInit,
                   actsInIter, verifiesInIter, firstDraw, failObs>>

\* Lines 128-135: a command is drawn and its Gen returns nil.
Decline ==
    /\ pc = "inner"
    /\ InnerCond
    /\ \E k \in 1..Len(Commands) : FALSE \in GenResults(Commands[k], state)
    /\ genCalls' = genCalls + 1
    /\ tries' = tries + 1
    /\ UNCHANGED <<input, execObs, pc, setupLocals, i, state, totalCmdsToRun, cmdRun,
                   bodyLocals, err, ret, verifySeen, hookObs, nInit,
                   actsInIter, verifiesInIter, firstDraw, failObs>>

\* Lines 128-133: a command is drawn and its Gen returns a CommandFunc.
Generate ==
    /\ pc = "inner"
    /\ InnerCond
    /\ \E k \in 1..Len(Commands) :
         /\ TRUE \in GenResults(Commands[k], state)
         /\ c' = k
    /\ genCalls' = genCalls + 1
    /\ pc' = "run"
    /\ UNCHANGED <<input, execObs, setupLocals, i, iterLocals, out, err, ret,
                   verifySeen, hookObs, nInit, actsInIter, verifiesInIter,
                   firstDraw, failObs>>

\* TearDown is called where an iteration ends, inside the loop.
EndIteration_TearsDown ==
    /\ pc = "inner"
    /\ ~InnerCond
    /\ i' = i + 1
    /\ state' = InitStateResult(Commands) /\ totalCmdsToRun' = 0
    /\ cmdRun' = 0 /\ tries' = 0
    /\ lastNew' = InitStateResult(Commands) /\ passed' = {}
    /\ nTearDown' = nTearDown + 1
    /\ pc' = "iter"
    /\ UNCHANGED <<input, setupLocals, bodyLocals, err, ret, verifySeen,
                   nSetup, setupRes, tearDownRes, errAtTearDown, iterObs,
                   failObs>>

\* Line 128, condition false, and the i++ of line 123; the locals of the
\* iteration go out of scope.
EndIteration ==
    /\ pc = "inner"
    /\ ~InnerCond
    /\ i' = i + 1
    /\ state' = InitStateResult(Commands) /\ totalCmdsToRun' = 0 /\ cmdRun' = 0 /\ tries' = 0
    /\ lastNew' = InitStateResult(Commands) /\ passed' = {}
    /\ pc' = "iter"
    /\ UNCHANGED <<input, setupLocals, bodyLocals, err, ret, verifySeen,
                   hookObs, iterObs, failObs>>

\* err after lines 139-142.
AfterRun(e, it, step, name, o, st) ==
    IF o.Error # Nil
      THEN CmdError(it, step, name, o.Description, st, o.Error)
      ELSE e

\* Lines 138-142: the CommandFunc is called; a non-nil out.Error is recorded.
RunCommand ==
    /\ pc = "run"
    /\ \E o \in Outputs(Commands[c], state) :
         /\ out' = o
         /\ lastNew' = o.NewState
         /\ err' = AfterRun(err, i, cmdRun, Name(c), o, state)
         /\ xfail' = IF o.Error # Nil
                       THEN [kind |-> "cmd", iter |-> nInit - 1,
                             step |-> actsInIter, cmd |-> Name(c),
                             desc |-> o.Description, state |-> state,
                             cause |-> o.Error]
                       ELSE xfail
    /\ actsInIter' = actsInIter + 1
    /\ pc' = "verify"
    /\ UNCHANGED <<input, passed, setupLocals, i, iterLocals, c, ret, verifySeen,
                   hookObs, nInit, genCalls, verifiesInIter, firstDraw,
                   vfail>>

\* The assignment of line 154 is missing: the state is not threaded.
Advance_KeepState ==
    /\ state' = state
    /\ cmdRun' = cmdRun + 1
    /\ tries' = 0
    /\ c' = 0 /\ out' = NoOut
    /\ pc' = "inner"

\* The reset of line 156 is missing.
Advance_KeepTries ==
    /\ state' = out.NewState
    /\ cmdRun' = cmdRun + 1
    /\ tries' = tries
    /\ c' = 0 /\ out' = NoOut
    /\ pc' = "inner"

\* Lines 153-156; c and out go out of scope.
Advance ==
    /\ state' = out.NewState
    /\ cmdRun' = cmdRun + 1
    /\ tries' = 0
    /\ c' = 0 /\ out' = NoOut
    /\ pc' = "inner"

\* Lines 145-156 with c.Verify == nil.
SkipVerify ==
    /\ pc = "verify"
    /\ ~HasVerify(Commands[c])
    /\ passed' = IF out.Error = Nil THEN passed \cup {c} ELSE passed
    /\ Advance
    /\ UNCHANGED <<input, lastNew, setupLocals, i, totalCmdsToRun, err, ret,
                   verifySeen, hookObs, iterObs, failObs>>

\* A test of ok for !ok at line 147.
AfterVerify_Inverted(e, ok, it, step, name, o, st) ==
    IF ok
      THEN VerifyError(it, step, name, o.Description, st, o.NewState)
      ELSE e

\* A report that prints the iteration index for the step index.
AfterVerify_IterForStep(e, ok, it, step, name, o, st) ==
    IF ~ok
      THEN VerifyError(it, it, name, o.Description, st, o.NewState)
      ELSE e

\* err after lines 146-150, Verify having returned ok.
AfterVerify(e, ok, it, step, name, o, st) ==
    IF ~ok
      THEN VerifyError(it, step, name, o.Description, st, o.NewState)
      ELSE e

\* Lines 145-156: c.Verify(state, out.NewState) is called; a false result
\* is recorded.
VerifyCommand ==
    /\ pc = "verify"
    /\ HasVerify(Commands[c])
    /\ \E ok \in VerifyResults(Commands[c], state, out.NewState,
                               verifySeen[c]) :
         /\ err' = AfterVerify(err, ok, i, cmdRun, Name(c), out, state)
         /\ passed' = IF out.Error = Nil /\ ok THEN passed \cup {c}
                                               ELSE passed
         /\ vfail' = IF ~ok
                       THEN [kind |-> "verify", iter |-> nInit - 1,
                             step |-> actsInIter - 1, cmd |-> Name(c),
                             oldState |-> state, newState |-> out.NewState]
                       ELSE vfail
    /\ verifySeen' = [verifySeen EXCEPT ![c] = SeenAfter(Commands[c], @)]
    /\ verifiesInIter' = verifiesInIter + 1
    /\ Advance
    /\ UNCHANGED <<input, lastNew, setupLocals, i, totalCmdsToRun, ret, hookObs,
                   nInit, genCalls, actsInIter, firstDraw, xfail>>

\* Lines 161-174 with s.TearDown == nil.
SkipTearDown ==
    /\ pc = "teardown"
    /\ ~TearDown
    /\ ret' = [n |-> iters, err |-> err]
    /\ pc' = "done"
    /\ UNCHANGED <<input, execObs, setupLocals, i, iterLocals, bodyLocals, err,
                   verifySeen, hookObs, iterObs, failObs>>

\* TearDown's error replaces whatever was recorded.
AfterTearDown_Overwrite(e, err2) ==
    IF err2 # Nil THEN TearDownError(NoErr, err2) ELSE e

\* err after lines 163-171, TearDown having returned err2.
AfterTearDown(e, err2) ==
    IF err2 # Nil /\ e = NoErr THEN TearDownError(e, err2) ELSE e

\* Lines 161-174: TearDown is called and Run returns.
RunTearDown ==
    /\ pc = "teardown"
    /\ TearDown
    /\ \E err2 \in Errs \cup {Nil} :
         /\ tearDownRes' = err2
         /\ err' = AfterTearDown(err, err2)
    /\ ret' = [n |-> iters, err |-> err']
    /\ nTearDown' = nTearDown + 1
    /\ pc' = "done"
    /\ UNCHANGED <<input, execObs, setupLocals, i, iterLocals, bodyLocals,
                   verifySeen, nSetup, setupRes, errAtTearDown, iterObs,
                   failObs>>

Next ==
    \/ Validate
    \/ SkipSetup
    \/ SetupOK
    \/ SetupFails
    \/ BeginIteration
    \/ EndIterations
    \/ Decline
    \/ Generate
    \/ EndIteration
    \/ RunCommand
    \/ SkipVerify
    \/ VerifyCommand
    \/ SkipTearDown
    \/ RunTearDown

Spec == Init /\ [][Next]_vars

\* Run is sequential code and every callback returns: a step that can be
\* taken is taken.
FairSpec == Spec /\ WF_vars(Next)

TypeOK ==
    /\ pc \in {"start", "setup", "iter", "inner", "run", "verify",
               "teardown", "done"}
    /\ i \in 0..DefaultIterations
    /\ Commands # RealWorldCommands => state \in States
    /\ c \in 0..Len(Commands)

\* ----------------------------------------------------------------- claims

\* The calls Run has made, as counted by the observations.
calls == <<nSetup, nInit, genCalls, actsInIter, verifiesInIter, nTearDown>>

\* The configuration is valid and Setup is absent or returned no error: the
\* run gets to its iterations.
Runs == Len(Commands) > 0 /\ InitState /\ setupRes \notin Errs

AllDecline == \A k \in DOMAIN Commands : Commands[k] = "decliner"

\* The iteration count Run works with: conf.Iterations, 100 when that is < 1.
Configured == IF Iterations < 1 THEN 100 ELSE Iterations

\* C1 (as claimed): once a Command-Execution-Error or a Verification-Error
\* is recorded, Run makes no further InitState, Gen, action or Verify call
\* (nor a Setup call); only TearDown may still be called.
C1_OnlyTearDownAfterError ==
    [][err.kind \in {"cmd", "verify"} =>
         /\ nSetup' = nSetup
         /\ nInit' = nInit
         /\ genCalls' = genCalls
         /\ actsInIter' = actsInIter
         /\ verifiesInIter' = verifiesInIter]_vars

\* C2: when Verify returns false for the execution that is the s-th action
\* of iteration i, the error Run returns is the Verification-Error with
\* iteration i, step s, that command's name, the state Gen was given as old
\* state and the action's NewState as new state.
C2_VerifyFailureReported ==
    vfail # NoErr =>
        /\ err.kind = "verify"
        /\ err.iter = vfail.iter
        /\ err.step = vfail.step
        /\ err.cmd = vfail.cmd
        /\ err.oldState = vfail.oldState
        /\ err.newState = vfail.newState
        /\ pc = "done" => ret.err = err

C2_Witness ==
    /\ pc = "done"
    /\ vfail # NoErr
    /\ vfail.step = 1
    /\ vfail.iter = 1
    /\ ret.err.kind = "verify"
    /\ tearDownRes \in Errs

\* C3 (as claimed): when an action returns a non-nil Error, the error Run
\* returns is the Command-Execution-Error of that execution, whatever
\* Verify says.
C3_ExecErrorReported ==
    (pc = "done" /\ xfail # NoErr) => ret.err = xfail

\* C4: with a valid configuration and Setup absent or not failing, a
\* present TearDown is called exactly once, whether the iterations
\* completed or an error aborted them, and no call follows it.
C4_TearDownOnce ==
    /\ [](nTearDown <= 1)
    /\ []((pc = "done" /\ Runs /\ TearDown) => nTearDown = 1)
    /\ [][nTearDown >= 1 => calls' = calls]_vars

C4_Witness ==
    /\ pc = "done"
    /\ Runs /\ TearDown
    /\ nTearDown = 1
    /\ errAtTearDown.kind = "cmd"
    /\ i < iters

\* C5: when Setup returns an error, Run returns 0 and a Setup-Error that
\* wraps it, and InitState, Gen, actions, Verify and TearDown are never
\* called.
C5_SetupErrorAborts ==
    setupRes \in Errs =>
        /\ pc = "done"
        /\ ret.n = 0
        /\ ret.err.kind = "setup"
        /\ ret.err.wraps = setupRes
        /\ nInit = 0 /\ genCalls = 0 /\ actsInIter = 0 /\ verifiesInIter = 0
        /\ nTearDown = 0

C5_Witness ==
    /\ pc = "done"
    /\ setupRes \in Errs
    /\ TearDown
    /\ ret.err.kind = "setup"

\* C6 (as claimed): when TearDown returns an error and no error was
\* recorded before it, Run returns a teardown error that carries the value
\* TearDown returned.
C6_TearDownErrorReturned ==
    (pc = "done" /\ tearDownRes \in Errs /\ errAtTearDown = NoErr) =>
        /\ ret.err.kind = "teardown"
        /\ ret.err.wraps = tearDownRes

\* C7: when an execution or verification error was recorded and TearDown
\* then returns an error, Run returns the recorded error unchanged.
C7_EarlierErrorWins ==
    (pc = "done" /\ errAtTearDown.kind \in {"cmd", "verify"}
                 /\ tearDownRes \in Errs) =>
        /\ ret.err = errAtTearDown
        /\ ret.err = IF vfail # NoErr THEN err ELSE xfail

C7_Witness ==
    /\ pc = "done"
    /\ errAtTearDown.kind = "verify"
    /\ tearDownRes \in Errs
    /\ ret.err.kind = "verify"

\* What C8 says of a run all of whose commands always decline, up to the
\* value returned.
AllDeclineIterations ==
    /\ actsInIter = 0
    /\ xfail = NoErr /\ vfail = NoErr
    /\ errAtTearDown = NoErr
    /\ (pc = "iter" /\ i > 0) => genCalls = 3 * Len(Commands)
    /\ pc \in {"teardown", "done"} =>
          /\ genCalls = 3 * Len(Commands)
          /\ nInit = Configured

\* C8 (as claimed): if every command always declines, every iteration ends
\* after exactly 3 x (number of commands) Gen calls, no action is executed,
\* no error is recorded, all configured iterations run and Run returns
\* (configured iteration count, nil).
C8_AllDeclineReturnsNil ==
    (AllDecline /\ Runs) =>
        /\ AllDeclineIterations
        /\ pc = "done" => ret = [n |-> Configured, err |-> NoErr]

\* C8 (amended): the same, Run returning (configured iteration count, nil)
\* when TearDown is absent or returns no error.
C8_AllDeclineAmended ==
    (AllDecline /\ Runs) =>
        /\ AllDeclineIterations
        /\ (pc = "done" /\ tearDownRes \notin Errs) =>
              ret = [n |-> Configured, err |-> NoErr]

C8_Witness ==
    /\ pc = "done"
    /\ AllDecline /\ Runs
    /\ Len(Commands) = 2
    /\ nInit = 2
    /\ genCalls = 6
    /\ tearDownRes = Nil
    /\ ret = [n |-> 2, err |-> NoErr]

\* C9: with an empty command list or a nil InitState, Run returns 0 and a
\* Configuration-Error at once; Setup, InitState, the commands and TearDown
\* are never called.
C9_ConfigurationError ==
    ((Len(Commands) = 0 \/ ~InitState) /\ pc # "start") =>
        /\ pc = "done"
        /\ ret.n = 0
        /\ ret.err.kind = "config"
        /\ calls = <<0, 0, 0, 0, 0, 0>>

C9_Witness ==
    /\ pc = "done"
    /\ Len(Commands) > 0 /\ ~InitState
    /\ Setup /\ TearDown
    /\ ret.err.kind = "config"

\* Scenario B: one command that always generates, never fails and whose
\* Verify returns false from its 2nd invocation on; 5 iterations, at least
\* 2 commands per iteration allowed; the run gets to its iterations and
\* has returned.
ScenarioB ==
    /\ Commands = <<"failsOn2">>
    /\ Iterations = 5
    /\ MaxCmdPerIter >= 2
    /\ Runs
    /\ pc = "done"

\* C10 (as claimed): in scenario B Run returns, whatever the draws, a
\* non-nil error that names the command and reports step index 1.
C10_ScenarioBStepOne ==
    ScenarioB =>
        /\ ret.err.kind \in {"cmd", "verify"}
        /\ ret.err.cmd = Name(1)
        /\ ret.err.step = 1

\* C10 (amended): in scenario B Run returns a Verification-Error that names
\* the command; it reports iteration 0, step 1 when the first iteration's
\* draw is at least 2, and iteration 1, step 0 when that draw is 1.
C10_ScenarioBAmended ==
    ScenarioB =>
        /\ ret.err.kind = "verify"
        /\ ret.err.cmd = Name(1)
        /\ IF firstDraw >= 2
             THEN ret.err.iter = 0 /\ ret.err.step = 1
             ELSE ret.err.iter = 1 /\ ret.err.step = 0

C10_Witness ==
    /\ ScenarioB
    /\ firstDraw = 1
    /\ ret.err.kind = "verify"
    /\ ret.err.iter = 1
    /\ ret.err.step = 0

\* C11: with a valid configuration and Setup absent or not failing, the
\* count Run returns is the configured iteration count (100 when the
\* configured value is < 1), however many iterations ran before an error.
C11_ReturnsConfiguredCount ==
    (pc = "done" /\ Runs) => ret.n = Configured

C11_Witness ==
    /\ pc = "done"
    /\ Runs
    /\ Iterations = 2
    /\ errAtTearDown.kind = "cmd"
    /\ nInit = 1
    /\ ret.n = 2

AllGood == \A k \in DOMAIN Commands : Commands[k] = "good"

\* C13: if every command always generates, no action fails, every Verify
\* returns true and Setup and TearDown do not fail, then InitState is called
\* once per iteration, every configured iteration runs and Run returns
\* (iterations, nil), whatever the draws.
C13_AllGoodSucceeds ==
    (AllGood /\ Runs /\ tearDownRes \notin Errs) =>
        /\ pc \in {"inner", "run", "verify"} => nInit = i + 1
        /\ pc = "iter" => nInit = i
        /\ pc \in {"teardown", "done"} => nInit = Configured
        /\ pc = "done" => ret = [n |-> Configured, err |-> NoErr]

C13_Witness ==
    /\ pc = "done"
    /\ Commands = ScenarioACommands
    /\ Iterations = 5
    /\ Runs
    /\ tearDownRes = Nil
    /\ nInit = 5
    /\ ret = [n |-> 5, err |-> NoErr]

\* Run is inside an iteration.
InIteration == pc \in {"inner", "run", "verify"}

\* An iteration has ended and its observations are still standing.
IterationOver == (pc = "iter" /\ i > 0) \/ pc \in {"teardown", "done"}

\* C14 (as claimed): with MaxCmdPerIter = 1 the draw is always 1 and
\* exactly one action executes in every iteration that runs.
C14_ExactlyOneAction ==
    (MaxCmdPerIter = 1 /\ Runs) =>
        /\ InIteration => totalCmdsToRun = 1
        /\ IterationOver => actsInIter = 1

\* C14 (amended): with MaxCmdPerIter = 1 the draw is always 1 and at most
\* one action executes in an iteration: exactly one, unless the iteration
\* ends on 3 x (number of commands) consecutive declines, and then none.
C14_AtMostOneAction ==
    (MaxCmdPerIter = 1 /\ Runs) =>
        /\ InIteration => totalCmdsToRun = 1 /\ actsInIter <= 1
        /\ IterationOver =>
              \/ actsInIter = 1
              \/ actsInIter = 0 /\ genCalls = 3 * Len(Commands)

C14_Witness ==
    /\ MaxCmdPerIter = 1 /\ Runs
    /\ pc = "iter" /\ i = 1
    /\ actsInIter = 1
    /\ genCalls > 1
    /\ err = NoErr

\* C15 (as claimed): Verify is called only for an execution whose
\* out.Error is nil.
C15_VerifyOnlyWithoutError ==
    [][verifiesInIter' = verifiesInIter + 1 => out.Error = Nil]_vars

\* C16: the state a Gen call is given is what InitState returned for the
\* iteration when no action has executed in it yet, and the NewState of the
\* iteration's latest action otherwise; a decline leaves state and cmdRun
\* alone and adds 1 to tries.
C16_StateThreading ==
    /\ [][genCalls' = genCalls + 1 =>
            state = IF actsInIter = 0 THEN InitStateResult(Commands)
                                      ELSE lastNew]_vars
    /\ [][(genCalls' = genCalls + 1 /\ pc' = "inner") =>
            (state' = state /\ cmdRun' = cmdRun /\ tries' = tries + 1)]_vars
    /\ [][nInit' = nInit + 1 =>
            (state' = InitStateResult(Commands) /\ actsInIter' = 0)]_vars

C16_Witness ==
    /\ Commands # RealWorldCommands
    /\ pc = "run"
    /\ nInit = 2
    /\ actsInIter = 1
    /\ genCalls = 3
    /\ tries = 1
    /\ state = 1
    /\ lastNew = 1

\* C17: every callback returning, Run always comes to return, whatever the
\* draws, declines and executions; and an iteration makes at most
\* totalCmdsToRun x 3 x (number of commands) Gen calls.
C17_Terminates ==
    /\ <>(pc = "done")
    /\ [](InIteration =>
            genCalls <= totalCmdsToRun * 3 * Len(Commands))

C17_Witness ==
    /\ pc = "done"
    /\ Len(Commands) = 1
    /\ nInit = 2
    /\ actsInIter = 2
    /\ genCalls = 6
    /\ ret.n = 2

\* C18: Setup and TearDown are each called at most once; a Setup call comes
\* before every InitState, Gen, action and Verify call, and no call follows
\* a TearDown call.
C18_HooksBracketTheRun ==
    /\ [](nSetup <= 1 /\ nTearDown <= 1)
    /\ []((Setup /\ (nInit > 0 \/ nTearDown > 0)) => nSetup = 1)
    /\ [][nSetup' = nSetup + 1 => calls = <<0, 0, 0, 0, 0, 0>>]_vars
    /\ [][nTearDown' = nTearDown + 1 => pc' = "done"]_vars
    /\ [][pc = "done" => calls' = calls]_vars

C18_Witness ==
    /\ pc = "done"
    /\ nSetup = 1 /\ nTearDown = 1
    /\ nInit = 2
    /\ actsInIter >= 1 /\ verifiesInIter >= 1

\* conf.MaxCmdPerIter, 20 when it is < 1.
ConfiguredMax == IF MaxCmdPerIter < 1 THEN 20 ELSE MaxCmdPerIter

\* C19: throughout an iteration 1 <= totalCmdsToRun <= MaxCmdPerIter (20
\* when configured < 1), 0 <= cmdRun <= totalCmdsToRun and 0 <= tries <=
\* 3 x (number of commands); every executed command resets tries to 0; an
\* iteration that ends without an error before totalCmdsToRun commands ran
\* ends on 3 x (number of commands) consecutive declines; and every
\* iteration makes at least one Gen call.
C19_LoopInvariants ==
    /\ [](InIteration =>
            /\ 1 <= totalCmdsToRun /\ totalCmdsToRun <= ConfiguredMax
            /\ 0 <= cmdRun /\ cmdRun <= totalCmdsToRun
            /\ 0 <= tries /\ tries <= 3 * Len(Commands))
    /\ [][actsInIter' = actsInIter + 1 => cmdRun < totalCmdsToRun]_vars
    /\ [][cmdRun' = cmdRun + 1 => tries' = 0]_vars
    /\ [][(InIteration /\ ~InIteration' /\ err = NoErr
                       /\ cmdRun < totalCmdsToRun) =>
            (tries = 3 * Len(Commands) /\ genCalls >= tries)]_vars
    /\ [][(InIteration /\ ~InIteration') => genCalls >= 1]_vars

C19_Witness ==
    /\ pc = "inner"
    /\ MaxCmdPerIter = 0
    /\ totalCmdsToRun = 20
    /\ cmdRun = 20
    /\ tries = 0
    /\ genCalls = 20

\* In the current iteration an action of the command of this kind returned
\* no error and passed Verify.
Passed(kind) == \E k \in passed : Commands[k] = kind

\* C20: when Run runs the realworldapi spec, whatever the server answers, a
\* login action executes only after a createUser action of the same
\* iteration returned no error and passed Verify, a getCurrentUser action
\* only after such a login action, and in the state InitState returns only
\* createUser generates an action.
C20_RealWorldOrder ==
    /\ [][(Commands = RealWorldCommands /\ actsInIter' = actsInIter + 1) =>
            /\ Commands[c] = "login" => Passed("createUser")
            /\ Commands[c] = "getCurrentUser" =>
                  (Passed("login") /\ Passed("createUser"))]_vars
    /\ []((Commands = RealWorldCommands /\ pc = "run"
              /\ (state = RWInit \/ actsInIter = 0)) =>
            Commands[c] = "createUser")

C20_Witness ==
    /\ Commands = RealWorldCommands
    /\ nInit = 2
    /\ pc = "verify"
    /\ Commands[c] = "getCurrentUser"
    /\ out.Error = Nil
    /\ state.loginUser = out.NewState.currentUser

====
